---- MODULE Spec2Model ----
(***************************************************************************)
(* taxdiff-ai: the visual-difference detector detectVisualDifferences      *)
(* (services/diffService, the revision that returns regions, two labelled  *)
(* images and a mask).  One call is a state machine: the awaited image     *)
(* load, the cell scan (one step per grid cell), the clustering scan (one  *)
(* step per grid cell, one step per flood-fill dequeue), the two debug     *)
(* renderings, the mask encoding and the return.                           *)
(*                                                                         *)
(* Numbers the code computes in floating point (the percentages of a       *)
(* bounding box) are kept as exact fractions in lowest terms.              *)
(***************************************************************************)
EXTENDS Integers, Sequences, FiniteSets, TLC

VARIABLES
    pc,              \* position of the call: idle, loading, scan, cluster, flood,
                     \* renderOld, renderNew, encode, return, done, failed
    imageOldStr,     \* argument: the old page image (what the data URL decodes to)
    imageNewStr,     \* argument: the new page image
    cellThreshold,   \* changed-pixel count a cell must exceed (5 in the code)
    order,           \* how the cell scan visits the cells: "rowMajor" as the code
                     \* does, or "any"
    width, height,   \* img1.width, img1.height
    cols, rows,      \* grid size
    grid,            \* Uint8Array(cols*rows): 1 = changed, 0 = same
    maskData,        \* mask buffer (empty until it is created)
    scanned,         \* history: how many times the cell scan took each cell
    r, c,            \* loop counters of the cell scan and of the clustering scan
    regions,         \* DiffRegion[]
    visited,         \* Uint8Array(cols*rows)
    regionCount,
    queue,           \* flood-fill worklist of <<row, col>>
    minR, maxR, minC, maxC,
    pushed,          \* history: every <<regionCount, row, col>> put on the worklist
    labeledOldImage, labeledNewImage, maskImage,
    outcome,         \* the promise: pending, resolved with the result, or rejected
    earlier,         \* history: the arguments and result of one resolved call that
                     \* the caller kept, and its age: "none" kept, kept by "this" call, by the
                     \* call before ("next"), or with other calls in between ("later")
    aiPc,            \* position of a call of analyzeDifferences: idle, generating,
                     \* done, failed
    diffRegions,     \* its argument: the regions of the visual diff
    parsed,          \* JSON.parse(text), as the AI sent it
    analyzed,        \* its promise: pending, resolved with the result, or rejected
    oldFile, newFile,        \* App state: the two PdfFile, or none
    isProcessingFile,
    selecting,               \* the handleFileSelect call awaiting loadPdf, or none
    currentPage, totalPages,
    oldPageImage, newPageImage, diffMaskImage,
    analysis,                \* AnalysisState: isLoading, error, results by page
    renders,                 \* the renderPages calls awaiting their pages, oldest first
    run,                     \* the runAnalysis call in progress, or none
    event,                   \* history: what ran last, of runAnalysis up to its await
                             \* ("runAnalysis"), its catch block ("catch"), the end of
                             \* a renderPages call ("renderPages"), and anything else
    basis                    \* history: the page images each stored result was computed from

vars == <<pc, imageOldStr, imageNewStr, cellThreshold, order, width, height, cols, rows,
          grid, maskData, scanned, r, c, regions, visited, regionCount, queue,
          minR, maxR, minC, maxC, pushed,
          labeledOldImage, labeledNewImage, maskImage, outcome, earlier,
          aiPc, diffRegions, parsed, analyzed,
          oldFile, newFile, isProcessingFile, selecting, currentPage, totalPages,
          oldPageImage, newPageImage, diffMaskImage, analysis, renders, run, event, basis>>

\* the state of the AI service
service == <<aiPc, diffRegions, parsed, analyzed>>
\* the state of the App component
app == <<oldFile, newFile, isProcessingFile, selecting, currentPage, totalPages,
         oldPageImage, newPageImage, diffMaskImage, analysis, renders, run, event, basis>>
\* what the visual diff never touches
host == <<service, app>>

\* ---------------------------------------------------------------- constants

CELL_SIZE == 20
PixelThreshold == 100
CellChangedThreshold == 5
\* largest changed-pixel threshold a tuned call is given
MaxThreshold == 6

\* the value of an argument or local that has not been given one yet
None == [none |-> TRUE]

\* ------------------------------------------------------------------- images

\* An image is a background colour with rectangles painted over it in order;
\* a rectangle covers x0 <= x < x1, y0 <= y < y1.  ok = FALSE: the data URL
\* does not decode (img.onerror fires).
White == <<255, 255, 255, 255>>
Black == <<0, 0, 0, 255>>
Red   == <<255, 0, 0, 255>>
\* summed R,G,B distance from White exactly 100, and 101
Tint100 == <<255, 205, 205, 255>>
Tint101 == <<255, 205, 204, 255>>
\* white that is fully transparent, and white that is half transparent
Clear == <<255, 255, 255, 0>>
Veil  == <<255, 255, 255, 128>>

Rect(x0, y0, x1, y1, colour) ==
    [x0 |-> x0, y0 |-> y0, x1 |-> x1, y1 |-> y1, colour |-> colour]

Img(w, h, bg, stamps) ==
    [ok |-> TRUE, width |-> w, height |-> h, bg |-> bg, stamps |-> stamps]

Broken == [ok |-> FALSE, width |-> 0, height |-> 0, bg |-> White, stamps |-> <<>>]

\* the colour of pixel (x, y): that of the last of the first k rectangles covering it
RECURSIVE Painted(_, _, _, _)
Painted(img, x, y, k) ==
    IF k = 0 THEN img.bg
    ELSE IF /\ img.stamps[k].x0 <= x /\ x < img.stamps[k].x1
            /\ img.stamps[k].y0 <= y /\ y < img.stamps[k].y1
         THEN img.stamps[k].colour
         ELSE Painted(img, x, y, k - 1)

PixelOf(img, x, y) == Painted(img, x, y, Len(img.stamps))

\* --------------------------------------------------------------- arithmetic

RECURSIVE Gcd(_, _)
Gcd(a, b) == IF b = 0 THEN a ELSE Gcd(b, a % b)

MathAbs(v) == IF v < 0 THEN 0 - v ELSE v

\* the fraction n/d (d > 0) in lowest terms
Frac(n, d) ==
    LET g == Gcd(MathAbs(n), d)
    IN  IF n >= 0 THEN [n |-> n \div g, d |-> d \div g]
                  ELSE [n |-> 0 - (MathAbs(n) \div g), d |-> d \div g]

FracInt(k) == [n |-> k, d |-> 1]
FracSub(a, b) == Frac(a.n * b.d - b.n * a.d, a.d * b.d)
FracAdd(a, b) == Frac(a.n * b.d + b.n * a.d, a.d * b.d)
\* a / k * m for integers k > 0, m >= 0
FracScale(a, k, m) == Frac(a.n * m, a.d * k)

FracLe(a, b) == a.n * b.d <= b.n * a.d

MathMax(a, b) == IF FracLe(a, b) THEN b ELSE a
MathMin(a, b) == IF FracLe(a, b) THEN a ELSE b

\* Math.ceil(a / b) for a >= 0, b > 0
CeilDiv(a, b) == (a + b - 1) \div b

IntMin(a, b) == IF a <= b THEN a ELSE b
IntMax(a, b) == IF a >= b THEN a ELSE b

Digit(d) ==
    CASE d = 0 -> "0" [] d = 1 -> "1" [] d = 2 -> "2" [] d = 3 -> "3"
      [] d = 4 -> "4" [] d = 5 -> "5" [] d = 6 -> "6" [] d = 7 -> "7"
      [] d = 8 -> "8" [] d = 9 -> "9"

\* Number.prototype.toString for a non-negative integer
RECURSIVE toString(_)
toString(n) == IF n < 10 THEN Digit(n) ELSE toString(n \div 10) \o Digit(n % 10)

\* ------------------------------------------------------------ pixel buffers

\* what the cleared canvas holds where drawImage put the image pixel px: a fully
\* transparent pixel adds nothing to transparent black and its colour is gone;
\* an opaque pixel, and white of any alpha, is read back as it is
ReadBack(px) == IF px[4] = 0 THEN <<0, 0, 0, 0>> ELSE px

\* ctx.getImageData(0, 0, width, height).data at indices i .. i+3 (one pixel)
\* after the canvas, sized to img1 and cleared, had img drawn at (0, 0): a
\* pixel outside img stays transparent black, a part of img outside the canvas
\* is cut off.
GetImageData(img, i) ==
    LET x == (i \div 4) % width
        y == (i \div 4) \div width
    IN  IF x < img.width /\ y < img.height THEN ReadBack(PixelOf(img, x, y))
        ELSE <<0, 0, 0, 0>>

data1(i) == GetImageData(imageOldStr, i)
data2(i) == GetImageData(imageNewStr, i)

\* rDiff + gDiff + bDiff of the pixel at data index i
SumDiff(p1, p2) ==
    MathAbs(p1[1] - p2[1]) + MathAbs(p1[2] - p2[2]) + MathAbs(p1[3] - p2[3])

\* the pixel test with the comparison turned round
PixelDiffersInverted(i) == SumDiff(data1(i), data2(i)) < PixelThreshold

\* the pixel test counting a distance equal to the threshold
PixelDiffersAtLeast(i) == SumDiff(data1(i), data2(i)) >= PixelThreshold

\* the pixel test of the cell scan
PixelDiffers(i) == SumDiff(data1(i), data2(i)) > PixelThreshold

Magenta == <<255, 0, 255, 255>>
Transparent == <<0, 0, 0, 0>>

\* what the scan leaves in the mask at a pixel, differing or not
MaskWrite(old, differs) ==
    IF differs THEN Magenta ELSE [old EXCEPT ![4] = 0]

\* ctx.createImageData(width, height): w * h pixels of transparent black.  A
\* pixel buffer is kept as its number of pixels and the pixels that are not
\* transparent black.
CreateImageData(w, h) == [pixels |-> w * h, set |-> <<>>]

\* the pixel p of a buffer
At(data, p) == IF p \in DOMAIN data.set THEN data.set[p] ELSE Transparent

\* the buffer after the pixels of written got their values
Store(data, written) ==
    [pixels |-> data.pixels,
     set    |-> [p \in {q \in DOMAIN written : written[q] # Transparent} |-> written[p]]
                @@ [p \in DOMAIN data.set \ DOMAIN written |-> data.set[p]]]

NewUint8Array(n) == [k \in 0..(n - 1) |-> 0]

startY(row) == row * CELL_SIZE
startX(col) == col * CELL_SIZE
endY(row) == IntMin(startY(row) + CELL_SIZE, height)
\* the right end of a cell not clamped to the page
endXUnclamped(col) == startX(col) + CELL_SIZE

endX(col) == IntMin(startX(col) + CELL_SIZE, width)

\* data indices i of the pixels the inner loops of cell (row, col) visit
CellIndices(row, col) ==
    {(y * width + x) * 4 : x \in startX(col)..(endX(col) - 1),
                           y \in startY(row)..(endY(row) - 1)}

\* the counter declared outside the loops: it goes on from the cells taken
\* before
diffPixelsShared(row, col) ==
    Cardinality({i \in UNION {CellIndices(k \div cols, k % cols) :
                                 k \in {j \in DOMAIN scanned : scanned[j] > 0}
                                        \cup {row * cols + col}} : PixelDiffers(i)})

\* the counter of cell (row, col) when its inner loops end
diffPixels(row, col) == Cardinality({i \in CellIndices(row, col) : PixelDiffers(i)})

\* the cell test with the comparison turned round
CellChangedBelow(count, threshold) == count < threshold

\* the cell test counting a cell that just reaches the threshold
CellChangedAtLeast(count, threshold) == count >= threshold

\* the cell test
CellChanged(count, threshold) == count > threshold

getIndex(row, col) == row * cols + col

\* arr[idx] of a typed array; outside it the read gives undefined, which equals
\* neither 0 nor 1 and is written -1 here
Read(arr, idx) == IF idx \in DOMAIN arr THEN arr[idx] ELSE 0 - 1

\* ---------------------------------------------------------------- clustering

\* the neighbours and the cells two to the left and two to the right
neighborsReaching(curR, curC) ==
    << <<curR - 1, curC>>, <<curR + 1, curC>>, <<curR, curC - 1>>, <<curR, curC + 1>>,
       <<curR - 1, curC - 1>>, <<curR - 1, curC + 1>>,
       <<curR + 1, curC - 1>>, <<curR + 1, curC + 1>>,
       <<curR, curC - 2>>, <<curR, curC + 2>> >>

\* the neighbours across an edge only
neighborsAcrossEdges(curR, curC) ==
    << <<curR - 1, curC>>, <<curR + 1, curC>>, <<curR, curC - 1>>, <<curR, curC + 1>> >>

neighbors(curR, curC) ==
    << <<curR - 1, curC>>, <<curR + 1, curC>>, <<curR, curC - 1>>, <<curR, curC + 1>>,
       <<curR - 1, curC - 1>>, <<curR - 1, curC + 1>>,
       <<curR + 1, curC - 1>>, <<curR + 1, curC + 1>> >>

\* the bounds check letting the column one past the last through
InGridLoose(nR, nC) == nR >= 0 /\ nR < rows /\ nC >= 0 /\ nC <= cols

InGrid(nR, nC) == nR >= 0 /\ nR < rows /\ nC >= 0 /\ nC < cols

\* the outer scan starting a region at every changed cell, visited or not
StartsRegionRevisits(idx) == Read(grid, idx) = 1

\* the outer scan starts a region at cell idx
StartsRegion(idx) == Read(grid, idx) = 1 /\ Read(visited, idx) = 0

\* the flood fill taking every unvisited neighbour, changed or not
TakesNeighborAnyCell(n) ==
    /\ InGrid(n[1], n[2])
    /\ Read(visited, getIndex(n[1], n[2])) = 0

\* the flood fill taking changed neighbours without looking at visited
TakesNeighborAgain(n) ==
    /\ InGrid(n[1], n[2])
    /\ Read(grid, getIndex(n[1], n[2])) = 1

\* the flood fill takes neighbour n of the dequeued cell
TakesNeighbor(n) ==
    /\ InGrid(n[1], n[2])
    /\ Read(grid, getIndex(n[1], n[2])) = 1
    /\ Read(visited, getIndex(n[1], n[2])) = 0

\* the right edge left unclamped
boxX2Unclamped(mxC) == Frac((mxC + 1) * CELL_SIZE * 100, width)

\* the bottom edge taken at the top of the last row of the region
boxY2OfTopEdge(mxR) == MathMin(FracInt(100), Frac(mxR * CELL_SIZE * 100, height))

\* the top edge taken from the last row of the region
boxY1OfMaxRow(mnR) == MathMax(FracInt(0), Frac(maxR * CELL_SIZE * 100, height))

boxY1(mnR) == MathMax(FracInt(0), Frac(mnR * CELL_SIZE * 100, height))
boxX1(mnC) == MathMax(FracInt(0), Frac(mnC * CELL_SIZE * 100, width))
boxY2(mxR) == MathMin(FracInt(100), Frac((mxR + 1) * CELL_SIZE * 100, height))
boxX2(mxC) == MathMin(FracInt(100), Frac((mxC + 1) * CELL_SIZE * 100, width))

\* the counter going on from where a kept earlier call left it
RegionCountCarried ==
    IF earlier.age = "none" THEN 0 ELSE Len(earlier.result.regions)

RegionCountStart == 0

\* the id taken before the counter is incremented
regionIdZeroBased(count) == toString(count - 1)

\* the id of the region being built
regionId(count) == toString(count)

\* ----------------------------------------------------------------- rendering

\* the canvas calls drawDebugLabels makes for one region
LabelCalls(reg) ==
    LET ymin == reg.boundingBox[1]
        xmin == reg.boundingBox[2]
        ymax == reg.boundingBox[3]
        xmax == reg.boundingBox[4]
        x == FracScale(xmin, 100, width)
        y == FracScale(ymin, 100, height)
        w == FracScale(FracSub(xmax, xmin), 100, width)
        h == FracScale(FracSub(ymax, ymin), 100, height)
    IN  << [call |-> "strokeRect", style |-> "red", x |-> x, y |-> y, w |-> w, h |-> h],
           [call |-> "fillRect", style |-> "red", x |-> x,
            y |-> FracSub(y, FracInt(24)), w |-> FracInt(40), h |-> FracInt(24)],
           [call |-> "fillText", style |-> "white", text |-> reg.id,
            x |-> FracAdd(x, FracInt(5)), y |-> FracSub(y, FracInt(4))] >>

\* the labelling stopping after the first region
drawDebugLabelsOfFirst(regs) ==
    IF regs = <<>> THEN <<>> ELSE LabelCalls(Head(regs))

RECURSIVE drawDebugLabels(_)
drawDebugLabels(regs) ==
    IF regs = <<>> THEN <<>>
    ELSE LabelCalls(Head(regs)) \o drawDebugLabels(Tail(regs))

\* canvas.toDataURL(type) of the canvas holding img with the label calls drawn
LabeledImage(type, img, regs) ==
    [type |-> type, width |-> width, height |-> height, image |-> img,
     drawn |-> drawDebugLabels(regs)]

\* canvas.toDataURL('image/png') after putImageData of the mask: lossless, but a
\* fully transparent pixel keeps no colour
EncodePng(data) ==
    [type |-> "image/png", width |-> width, height |-> height,
     data |-> Store(CreateImageData(width, height),
                    [p \in DOMAIN data.set |->
                        IF data.set[p][4] = 0 THEN Transparent ELSE data.set[p]])]

\* ------------------------------------------------------------------- inputs

Blank45 == Img(45, 25, White, <<>>)
Blank100 == Img(100, 100, White, <<>>)

\* the 3x2-pixel marks at the origins of the first k cells of S, cells numbered
\* row by row on a page n cells wide
RECURSIVE Marks(_, _, _)
Marks(S, k, n) ==
    IF k = 0 THEN <<>>
    ELSE IF (k - 1) \in S
         THEN Append(Marks(S, k - 1, n),
                     Rect(((k - 1) % n) * 20, ((k - 1) \div n) * 20,
                          ((k - 1) % n) * 20 + 3, ((k - 1) \div n) * 20 + 2, Black))
         ELSE Marks(S, k - 1, n)

\* pairs of large pages: <<old, new>>
LargeInputs == {
    \* identical except for a solid 25x25 block at (10,10)-(35,35)
    <<Blank100, Img(100, 100, White, <<Rect(10, 10, 35, 35, Black)>>)>>,
    \* the same with a block whose colour is 101 away from the page's
    <<Blank100, Img(100, 100, White, <<Rect(10, 10, 35, 35, Tint101)>>)>>,
    \* 100x100 against 200x200
    <<Blank100, Img(200, 200, White, <<>>)>>,
    \* 165x45 (nine columns and three rows of cells), ten marked cells no two of
    \* which touch
    <<Img(165, 45, White, <<>>),
      Img(165, 45, White, Marks({0, 2, 4, 6, 8, 18, 20, 22, 24, 26}, 27, 9))>>,
    \* 85x45 (five columns and three rows of cells): a U of changed cells down the
    \* first column, along the last row and up the last column, and one changed
    \* cell inside it that touches none of them
    <<Img(85, 45, White, <<>>),
      Img(85, 45, White, Marks({0, 2, 4, 5, 9, 10, 11, 12, 13, 14}, 15, 5))>>
}

\* a blank small page against the same page with any set of its six cells marked
PatternInputs == {<<Blank45, Img(45, 25, White, Marks(S, 6, 3))>> : S \in SUBSET (0..5)}

\* pairs of small pages (three columns and two rows of cells, the last column
\* 5 pixels wide, the last row 5 pixels high): <<old, new>>
Inputs == {
    \* identical pairs
    <<Blank45, Blank45>>,
    <<Img(45, 25, White, <<Rect(2, 2, 30, 12, Red)>>),
      Img(45, 25, White, <<Rect(2, 2, 30, 12, Red)>>)>>,
    \* two single-cell changes two columns apart, the right one in the partial column
    <<Blank45, Img(45, 25, White, <<Rect(1, 1, 4, 3, Black), Rect(41, 1, 44, 3, Black)>>)>>,
    \* two cells touching at a corner only
    <<Blank45, Img(45, 25, White, <<Rect(15, 15, 19, 19, Black), Rect(20, 20, 24, 24, Black)>>)>>,
    \* top right met first, bottom left second
    <<Blank45, Img(45, 25, White, <<Rect(40, 0, 45, 4, Black), Rect(0, 21, 10, 25, Black)>>)>>,
    \* three cells in a row, the middle one with exactly 6 differing pixels
    <<Blank45, Img(45, 25, White,
        <<Rect(0, 0, 20, 20, Black), Rect(40, 0, 45, 20, Black), Rect(20, 0, 23, 2, Black)>>)>>,
    \* one cell with exactly 5 differing pixels, one with exactly 6
    <<Blank45, Img(45, 25, White, <<Rect(0, 0, 5, 1, Black), Rect(40, 20, 43, 22, Black)>>)>>,
    \* cells of the last column and the last row: exactly 5 differing pixels in
    \* two of them, exactly 6 in a third
    <<Blank45, Img(45, 25, White,
        <<Rect(40, 20, 45, 21, Black), Rect(0, 20, 5, 21, Black), Rect(40, 0, 43, 2, Black)>>)>>,
    \* a block whose colour distance is exactly the pixel threshold, one just above
    <<Blank45, Img(45, 25, White, <<Rect(0, 0, 10, 10, Tint100), Rect(20, 0, 30, 10, Tint101)>>)>>,
    \* a change covering the whole page, on a changed background
    <<Img(45, 25, Black, <<Rect(0, 0, 10, 10, Red)>>), Img(45, 25, White, <<Rect(0, 0, 10, 10, Red)>>)>>,
    \* an L-shaped component met first at a cell right of its leftmost column
    <<Blank45, Img(45, 25, White, <<Rect(20, 0, 40, 20, Black), Rect(0, 20, 40, 25, Black)>>)>>,
    \* sizes differ: new larger, new smaller
    <<Blank45, Img(25, 25, White, <<>>)>>,
    <<Img(25, 25, White, <<>>), Img(45, 25, White, <<Rect(30, 0, 45, 25, Black)>>)>>,
    \* an image that does not decode
    <<Blank45, Broken>>,
    \* a block that differs from the old page in alpha only: half transparent,
    \* fully transparent
    <<Blank45, Img(45, 25, White, <<Rect(0, 0, 10, 10, Veil)>>)>>,
    <<Blank45, Img(45, 25, White, <<Rect(0, 0, 10, 10, Clear)>>)>>,
    \* images that decode with no pixels: both, the old one only, the new one only
    <<Img(0, 0, White, <<>>), Img(0, 0, White, <<>>)>>,
    <<Img(45, 0, White, <<>>), Blank45>>,
    <<Blank45, Img(0, 25, White, <<>>)>>
}

\* ---------------------------------------------------------------- documents

\* null in a field that otherwise holds a string
Null == "null"

\* the files the user can drop on the old and on the new side
FileA == [name |-> "a.pdf"]
FileB == [name |-> "b.pdf"]
FileC == [name |-> "c.pdf"]
OldFiles == {FileA, FileC}
NewFiles == {FileB, FileA}

\* loadPdf(file): pdf.numPages
loadPdf(file) == IF file = FileC THEN 1 ELSE 2

\* the pages, two cells wide and six pixels high: a.pdf and b.pdf differ on
\* page 1 in a block that spans both cells and agree on page 2; the only page of
\* c.pdf is too large for toDataURL, which then gives a data URL that does not
\* decode
PageA1 == Img(21, 6, White, <<>>)
PageB1 == Img(21, 6, White, <<Rect(14, 0, 21, 6, Black)>>)
Page2 == Img(21, 6, White, <<Rect(0, 4, 21, 5, Black)>>)

\* renderPageToImage(file, pageNumber): canvas.toDataURL('image/png')
renderPageToImage(file, pageNumber) ==
    CASE file = FileC -> Broken
      [] file = FileA /\ pageNumber = 1 -> PageA1
      [] file = FileB /\ pageNumber = 1 -> PageB1
      [] OTHER -> Page2

\* the text transcribePageToMarkdown answers with for a page image
Transcript(image) ==
    CASE image = PageA1 -> "markdown of a.pdf page 1"
      [] image = PageB1 -> "markdown of b.pdf page 1"
      [] image = Page2 -> "markdown of page 2"
      [] OTHER -> "markdown of nothing"

\* the keys of analysis.results: page numbers as property names
LastPage == CHOOSE n \in {loadPdf(f) : f \in OldFiles \cup NewFiles} :
                \A f \in OldFiles \cup NewFiles : loadPdf(f) <= n
PageKeys == {toString(p) : p \in 1..LastPage}
NoResults == [k \in PageKeys |-> None]

\* most renderPages calls in flight at once
MaxRenders == 2

\* ------------------------------------------------------------------ actions

Init ==
    /\ pc = "idle"
    /\ imageOldStr = None /\ imageNewStr = None
    /\ cellThreshold = CellChangedThreshold
    /\ order = "rowMajor"
    /\ scanned = <<>>
    /\ width = 0 /\ height = 0 /\ cols = 0 /\ rows = 0
    /\ grid = <<>> /\ maskData = CreateImageData(0, 0)
    /\ r = 0 /\ c = 0
    /\ regions = <<>> /\ visited = <<>> /\ regionCount = 0 /\ queue = <<>>
    /\ minR = 0 /\ maxR = 0 /\ minC = 0 /\ maxC = 0
    /\ pushed = <<>>
    /\ labeledOldImage = None /\ labeledNewImage = None /\ maskImage = None
    /\ outcome = [status |-> "none"]
    /\ earlier = [age |-> "none"]
    /\ aiPc = "idle"
    /\ diffRegions = <<>>
    /\ parsed = None
    /\ analyzed = [status |-> "none"]
    /\ oldFile = None /\ newFile = None
    /\ isProcessingFile = FALSE
    /\ selecting = None
    /\ currentPage = 1 /\ totalPages = 1
    /\ oldPageImage = None /\ newPageImage = None /\ diffMaskImage = None
    /\ analysis = [isLoading |-> FALSE, error |-> Null, results |-> NoResults]
    /\ renders = <<>>
    /\ run = None
    /\ event = "other"
    /\ basis = NoResults

\* a call is made: a new frame, none of its locals declared yet, promise pending
CallWith(in, threshold, ord) ==
    /\ pc \in {"idle", "done", "failed"}
    /\ pc' = "loading"
    /\ imageOldStr' = in[1] /\ imageNewStr' = in[2]
    /\ cellThreshold' = threshold
    /\ order' = ord
    /\ scanned' = <<>>
    /\ width' = 0 /\ height' = 0 /\ cols' = 0 /\ rows' = 0
    /\ grid' = <<>> /\ maskData' = CreateImageData(0, 0)
    /\ r' = 0 /\ c' = 0
    /\ regions' = <<>> /\ visited' = <<>> /\ regionCount' = 0 /\ queue' = <<>>
    /\ minR' = 0 /\ maxR' = 0 /\ minC' = 0 /\ maxC' = 0
    /\ pushed' = <<>>
    /\ labeledOldImage' = None /\ labeledNewImage' = None /\ maskImage' = None
    /\ outcome' = [status |-> "pending"]
    /\ earlier' = IF earlier.age = "none" THEN earlier
                  ELSE [earlier EXCEPT !.age = IF @ = "this" THEN "next" ELSE "later"]

\* the call with the cell scan in the order of the code's loops
Call(in, threshold) == CallWith(in, threshold, "rowMajor")

\* detectVisualDifferences(imageOldStr, imageNewStr) as the code is built
Invoke ==
    /\ \E in \in Inputs : Call(in, CellChangedThreshold)
    /\ UNCHANGED host

\* the same call on a pair of large pages
InvokeLarge ==
    /\ \E in \in LargeInputs : Call(in, CellChangedThreshold)
    /\ UNCHANGED host

\* the same call on a small page with a pattern of marked cells
InvokePattern ==
    /\ \E in \in PatternInputs : Call(in, CellChangedThreshold)
    /\ UNCHANGED host

\* the kept call made again with the changed-pixel threshold exposed and raised
InvokeTuned ==
    /\ earlier.age # "none"
    /\ \E t \in (earlier.threshold + 1)..MaxThreshold :
          Call(<<earlier.old, earlier.new>>, t)
    /\ UNCHANGED host

\* the kept call made again with the cells of the scan handed out in any order
InvokeAnyOrder ==
    /\ earlier.age # "none"
    /\ CallWith(<<earlier.old, earlier.new>>, earlier.threshold, "any")
    /\ UNCHANGED host

frame == <<width, height, cols, rows, grid, maskData, scanned, r, c, regions, visited,
           regionCount, queue, minR, maxR, minC, maxC, pushed,
           labeledOldImage, labeledNewImage, maskImage>>
args == <<imageOldStr, imageNewStr, cellThreshold, order>>

\* an exception caught inside the function, which then returns what its locals
\* hold
ThrowCaught(error) ==
    [status |-> "resolved", regions |-> regions, diffImageOld |-> labeledOldImage,
     diffImageNew |-> labeledNewImage, maskImage |-> maskImage]

\* an exception leaving the async function: the promise is rejected with it
Throw(error) == [status |-> "rejected", error |-> error]

\* either image fails to load: Promise.all rejects and so does the call
LoadFail ==
    /\ pc = "loading"
    /\ ~(imageOldStr.ok /\ imageNewStr.ok)
    /\ pc' = "failed"
    /\ outcome' = Throw("image load error")
    /\ UNCHANGED <<host, args, frame, earlier>>

\* canvas.getContext('2d') gives null
ContextFail ==
    /\ pc = "loading"
    /\ imageOldStr.ok /\ imageNewStr.ok
    /\ pc' = "failed"
    /\ width' = imageOldStr.width /\ height' = imageOldStr.height
    /\ outcome' = Throw("Canvas context creation failed")
    /\ UNCHANGED <<host, args, cols, rows, grid, maskData, scanned, r, c, regions, visited,
                   regionCount, queue, minR, maxR, minC, maxC, pushed,
                   labeledOldImage, labeledNewImage, maskImage, earlier>>

\* the canvas has no pixels: ctx.getImageData(0, 0, width, height) throws on a
\* zero width or height
GetImageDataFail ==
    /\ pc = "loading"
    /\ imageOldStr.ok /\ imageNewStr.ok
    /\ imageOldStr.width = 0 \/ imageOldStr.height = 0
    /\ pc' = "failed"
    /\ width' = imageOldStr.width /\ height' = imageOldStr.height
    /\ outcome' = Throw("IndexSizeError")
    /\ UNCHANGED <<host, args, cols, rows, grid, maskData, scanned, r, c, regions, visited,
                   regionCount, queue, minR, maxR, minC, maxC, pushed,
                   labeledOldImage, labeledNewImage, maskImage, earlier>>

\* both images loaded; the code up to the cell scan
LoadOk ==
    /\ pc = "loading"
    /\ imageOldStr.ok /\ imageNewStr.ok
    /\ imageOldStr.width > 0 /\ imageOldStr.height > 0
    /\ width' = imageOldStr.width
    /\ height' = imageOldStr.height
    /\ cols' = CeilDiv(imageOldStr.width, CELL_SIZE)
    /\ rows' = CeilDiv(imageOldStr.height, CELL_SIZE)
    /\ grid' = NewUint8Array(cols' * rows')
    /\ maskData' = CreateImageData(width', height')
    /\ scanned' = NewUint8Array(cols' * rows')
    /\ r' = 0 /\ c' = 0
    /\ pc' = "scan"
    /\ UNCHANGED <<host, args, regions, visited, regionCount, queue, minR, maxR, minC, maxC,
                   pushed, labeledOldImage, labeledNewImage, maskImage, outcome, earlier>>

\* the next cell of a row-major loop over the grid
NextR(col) == IF col + 1 < cols THEN r ELSE r + 1
NextC(col) == IF col + 1 < cols THEN col + 1 ELSE 0

\* the body of the cell scan for cell (row, col)
ScanBody(row, col) ==
    /\ maskData' = Store(maskData, [p \in {i \div 4 : i \in CellIndices(row, col)} |->
                                        MaskWrite(At(maskData, p), PixelDiffers(p * 4))])
    /\ grid' = IF CellChanged(diffPixels(row, col), cellThreshold)
               THEN [grid EXCEPT ![getIndex(row, col)] = 1]
               ELSE grid
    /\ scanned' = [scanned EXCEPT ![getIndex(row, col)] = @ + 1]

\* one iteration of the cell scan: cell (r, c)
ScanCell ==
    /\ pc = "scan"
    /\ order = "rowMajor"
    /\ r < rows /\ c < cols
    /\ ScanBody(r, c)
    /\ r' = NextR(c) /\ c' = NextC(c)
    /\ UNCHANGED <<pc, host, args, width, height, cols, rows, regions, visited, regionCount,
                   queue, minR, maxR, minC, maxC, pushed,
                   labeledOldImage, labeledNewImage, maskImage, outcome, earlier>>

\* the cell scan with its cells handed out in any order: a cell not yet taken
ScanAny ==
    /\ pc = "scan"
    /\ order = "any"
    /\ \E k \in DOMAIN scanned :
          /\ scanned[k] = 0
          /\ ScanBody(k \div cols, k % cols)
    /\ UNCHANGED <<pc, host, args, width, height, cols, rows, r, c, regions, visited, regionCount,
                   queue, minR, maxR, minC, maxC, pushed,
                   labeledOldImage, labeledNewImage, maskImage, outcome, earlier>>

\* every cell has had its turn
ScanOver ==
    IF order = "rowMajor" THEN ~(r < rows /\ c < cols)
    ELSE \A k \in DOMAIN scanned : scanned[k] > 0

\* the cell scan is over; the declarations before the clustering scan
ScanDone ==
    /\ pc = "scan"
    /\ ScanOver
    /\ regions' = <<>>
    /\ visited' = NewUint8Array(cols * rows)
    /\ regionCount' = RegionCountStart
    /\ r' = 0 /\ c' = 0
    /\ pc' = "cluster"
    /\ UNCHANGED <<host, args, width, height, cols, rows, grid, maskData, scanned, queue,
                   minR, maxR, minC, maxC, pushed,
                   labeledOldImage, labeledNewImage, maskImage, outcome, earlier>>

\* one iteration of the clustering scan: cell (r, c)
ClusterCell ==
    /\ pc = "cluster"
    /\ r < rows /\ c < cols
    /\ IF StartsRegion(getIndex(r, c))
       THEN /\ regionCount' = regionCount + 1
            /\ queue' = << <<r, c>> >>
            /\ visited' = [visited EXCEPT ![getIndex(r, c)] = 1]
            /\ pushed' = Append(pushed, <<regionCount + 1, r, c>>)
            /\ minR' = r /\ maxR' = r /\ minC' = c /\ maxC' = c
            /\ pc' = "flood"
            /\ UNCHANGED <<r, c>>
       ELSE /\ r' = NextR(c) /\ c' = NextC(c)
            /\ UNCHANGED <<pc, regionCount, queue, visited, pushed, minR, maxR, minC, maxC>>
    /\ UNCHANGED <<host, args, width, height, cols, rows, grid, maskData, scanned, regions,
                   labeledOldImage, labeledNewImage, maskImage, outcome, earlier>>

\* the neighbours of the dequeued cell that go on the worklist, in loop order
RECURSIVE Taken(_, _)
Taken(ns, seen) ==
    IF ns = <<>> THEN <<>>
    ELSE IF TakesNeighbor(Head(ns)) /\ Head(ns) \notin seen
         THEN <<Head(ns)>> \o Taken(Tail(ns), seen \cup {Head(ns)})
         ELSE Taken(Tail(ns), seen)

\* one iteration of the flood fill: dequeue a cell, fold it into the bounds,
\* mark and enqueue its changed unvisited neighbours
FloodStep ==
    /\ pc = "flood"
    /\ queue # <<>>
    /\ LET curR == Head(queue)[1]
           curC == Head(queue)[2]
           new  == Taken(neighbors(curR, curC), {})
       IN  /\ minR' = IntMin(minR, curR) /\ maxR' = IntMax(maxR, curR)
           /\ minC' = IntMin(minC, curC) /\ maxC' = IntMax(maxC, curC)
           /\ queue' = Tail(queue) \o new
           /\ visited' = [k \in DOMAIN visited |->
                            IF \E j \in 1..Len(new) : getIndex(new[j][1], new[j][2]) = k
                            THEN 1 ELSE visited[k]]
           /\ pushed' = pushed \o [j \in 1..Len(new) |-> <<regionCount, new[j][1], new[j][2]>>]
    /\ UNCHANGED <<pc, host, args, width, height, cols, rows, grid, maskData, scanned, r, c, regions,
                   regionCount, labeledOldImage, labeledNewImage, maskImage,
                   outcome, earlier>>

\* the worklist drained: the region is appended and the clustering scan goes on
FloodDone ==
    /\ pc = "flood"
    /\ queue = <<>>
    /\ regions' = Append(regions,
                         [id |-> regionId(regionCount),
                          boundingBox |-> <<boxY1(minR), boxX1(minC), boxY2(maxR), boxX2(maxC)>>])
    /\ r' = NextR(c) /\ c' = NextC(c)
    /\ pc' = "cluster"
    /\ UNCHANGED <<host, args, width, height, cols, rows, grid, maskData, scanned, visited, regionCount,
                   queue, minR, maxR, minC, maxC, pushed,
                   labeledOldImage, labeledNewImage, maskImage, outcome, earlier>>

\* the clustering scan is over: the old image with labels
RenderOld ==
    /\ pc = "cluster"
    /\ ~(r < rows /\ c < cols)
    /\ labeledOldImage' = LabeledImage("image/jpeg", imageOldStr, regions)
    /\ pc' = "renderNew"
    /\ UNCHANGED <<host, args, width, height, cols, rows, grid, maskData, scanned, r, c, regions, visited,
                   regionCount, queue, minR, maxR, minC, maxC, pushed,
                   labeledNewImage, maskImage, outcome, earlier>>

\* the new image with labels
RenderNew ==
    /\ pc = "renderNew"
    /\ labeledNewImage' = LabeledImage("image/jpeg", imageNewStr, regions)
    /\ pc' = "encode"
    /\ UNCHANGED <<host, args, width, height, cols, rows, grid, maskData, scanned, r, c, regions, visited,
                   regionCount, queue, minR, maxR, minC, maxC, pushed,
                   labeledOldImage, maskImage, outcome, earlier>>

\* the mask image
EncodeMask ==
    /\ pc = "encode"
    /\ maskImage' = EncodePng(maskData)
    /\ pc' = "return"
    /\ UNCHANGED <<host, args, width, height, cols, rows, grid, maskData, scanned, r, c, regions, visited,
                   regionCount, queue, minR, maxR, minC, maxC, pushed,
                   labeledOldImage, labeledNewImage, outcome, earlier>>

Result ==
    [status |-> "resolved", regions |-> regions, diffImageOld |-> labeledOldImage,
     diffImageNew |-> labeledNewImage, maskImage |-> maskImage]

\* the call returns its four outputs
Return ==
    /\ pc = "return"
    /\ outcome' = Result
    /\ pc' = "done"
    /\ UNCHANGED <<host, args, frame, earlier>>

\* the same return, the caller keeping this result to compare later calls with
ReturnKept ==
    /\ pc = "return"
    /\ outcome' = Result
    /\ pc' = "done"
    /\ earlier' = [old |-> imageOldStr, new |-> imageNewStr, threshold |-> cellThreshold,
                   order |-> order, grid |-> grid, mask |-> maskData,
                   result |-> Result, age |-> "this"]
    /\ UNCHANGED <<host, args, frame>>

\* the steps of a call in progress
Steps ==
    \/ LoadFail \/ ContextFail \/ GetImageDataFail \/ LoadOk
    \/ ScanCell \/ ScanDone \/ ClusterCell \/ FloodStep \/ FloodDone
    \/ RenderOld \/ RenderNew \/ EncodeMask \/ Return

Next == Invoke \/ InvokeLarge \/ InvokePattern \/ Steps

Spec == Init /\ [][Next]_vars

\* a clustering pass that has begun runs on: the function is synchronous after
\* its one await, so no loop of it is ever left waiting
NextLive == Invoke \/ InvokePattern \/ Steps
SpecLive ==
    /\ Init /\ [][NextLive]_vars
    /\ WF_vars(ClusterCell) /\ WF_vars(FloodStep) /\ WF_vars(FloodDone) /\ WF_vars(RenderOld)

\* calls on the small pages in sequence, an earlier result kept for comparison
NextRuns == Invoke \/ Steps \/ ReturnKept
SpecRuns == Init /\ [][NextRuns]_vars

\* the same, and a kept call can be repeated with a raised threshold
NextTuned == Invoke \/ InvokeTuned \/ Steps \/ ReturnKept
SpecTuned == Init /\ [][NextTuned]_vars

\* calls on the small pages in sequence, a kept call repeated with the cells
\* of its scan in any order
NextAnyOrder == Invoke \/ InvokeAnyOrder \/ Steps \/ ScanAny \/ ReturnKept
SpecAnyOrder == Init /\ [][NextAnyOrder]_vars

\* ------------------------------------------------------- analyzeDifferences

\* most regions a call is given, most changes a response holds, most ids a
\* change names
MaxRegions == 3
MaxChanges == 2
MaxRelated == 2

\* region lists as the visual diff returns them: ids "1", "2", ... in order,
\* each with its own box
RegionList(n) ==
    [i \in 1..n |-> [id |-> toString(i), boundingBox |-> <<10 * i, 10 * i, 10 * i + 5, 10 * i + 5>>]]
DiffRegionLists == {RegionList(n) : n \in 0..MaxRegions}

\* the ids an AI response names: ids of regions, and 7, which no region has
RelatedIds == {"1", "2", "7"}
RelatedLists == UNION {[1..n -> RelatedIds] : n \in 0..MaxRelated}

\* the changes of a response: with relatedDiffIds, or without the field
Changes ==
    {[id |-> "c1", description |-> "text"]}
        \cup {[id |-> "c1", description |-> "text", relatedDiffIds |-> ids] :
                ids \in RelatedLists}
Response(changes) ==
    [summary |-> "summary", oldPageMarkdown |-> "old tagged", newPageMarkdown |-> "new tagged",
     changes |-> changes]
Responses ==
    {[summary |-> "summary", oldPageMarkdown |-> "old tagged",
      newPageMarkdown |-> "new tagged"]}
        \cup {Response(changes) : changes \in UNION {[1..n -> Changes] : n \in 0..MaxChanges}}

\* the errors of the awaited generateContent call and of reading its answer
GenerateErrors == {"No response from AI", "Unexpected token in JSON", "fetch failed"}

\* diffRegions.find(r => r.id.toString() === rid.toString()): the first region
\* with that id, or nothing; both are strings, which toString leaves as they are
find(regionList, rid) ==
    LET hits == {i \in 1..Len(regionList) : regionList[i].id = rid}
    IN  IF hits = {} THEN None
        ELSE regionList[CHOOSE i \in hits : \A j \in hits : i <= j]

\* relatedIds.forEach(...): the boxes of the ids that name a region, in the
\* order of the ids
RECURSIVE boxesOf(_, _)
boxesOf(relatedIds, regionList) ==
    IF relatedIds = <<>> THEN <<>>
    ELSE LET region == find(regionList, Head(relatedIds))
         IN  (IF region = None THEN <<>> ELSE <<region.boundingBox>>)
                 \o boxesOf(Tail(relatedIds), regionList)

\* change.relatedDiffIds || []
relatedIdsOf(change) ==
    IF "relatedDiffIds" \in DOMAIN change THEN change.relatedDiffIds ELSE <<>>

\* { ...change, boundingBoxes: boxes }
Spread(change, boxes) ==
    [f \in DOMAIN change \cup {"boundingBoxes"} |->
        IF f = "boundingBoxes" THEN boxes ELSE change[f]]

\* the callback of parsed.changes.map with the boxes attached whether or not
\* there are any
withBoxesAlways(change, regionList) ==
    Spread(change, boxesOf(relatedIdsOf(change), regionList))

\* the callback of parsed.changes.map
withBoxes(change, regionList) ==
    LET boxes == boxesOf(relatedIdsOf(change), regionList)
    IN  IF Len(boxes) > 0 THEN Spread(change, boxes) ELSE change

\* the post-processing of the parsed response and the object returned
PostProcess(response, regionList) ==
    [f \in {"summary", "changes", "oldPageMarkdown", "newPageMarkdown"} \cap DOMAIN response |->
        IF f = "changes"
        THEN [i \in DOMAIN response.changes |-> withBoxes(response.changes[i], regionList)]
        ELSE response[f]]

\* analyzeDifferences(..., diffRegions, pageNumber) is called with an API key
\* configured: the request is sent
analyzeDifferences(regionList) ==
    /\ aiPc \in {"idle", "done", "failed"}
    /\ aiPc' = "generating"
    /\ diffRegions' = regionList
    /\ parsed' = None
    /\ analyzed' = [status |-> "pending"]

\* the same call with no API key configured
NoApiKey(regionList) ==
    /\ aiPc \in {"idle", "done", "failed"}
    /\ aiPc' = "failed"
    /\ diffRegions' = regionList
    /\ parsed' = None
    /\ analyzed' = Throw("API_KEY is not defined")

\* the answer arrives and parses: the rest of the function
Respond(responses) ==
    /\ aiPc = "generating"
    /\ \E response \in responses :
          /\ parsed' = response
          /\ analyzed' = [status |-> "resolved", value |-> PostProcess(response, diffRegions)]
    /\ aiPc' = "done"
    /\ UNCHANGED diffRegions

\* the request fails, the answer is empty or it is not JSON: the error is
\* logged and thrown on
Reject(errors) ==
    /\ aiPc = "generating"
    /\ \E error \in errors : analyzed' = Throw(error)
    /\ aiPc' = "failed"
    /\ UNCHANGED <<diffRegions, parsed>>

\* the state of the visual diff
detector == <<pc, args, frame, outcome, earlier>>

InvokeAnalyze ==
    /\ \E regionList \in DiffRegionLists : analyzeDifferences(regionList)
    /\ UNCHANGED <<detector, app>>
InvokeNoApiKey ==
    /\ \E regionList \in DiffRegionLists : NoApiKey(regionList)
    /\ UNCHANGED <<detector, app>>
Generated ==
    /\ Respond(Responses)
    /\ UNCHANGED <<detector, app>>
GenerateFailed ==
    /\ Reject(GenerateErrors)
    /\ UNCHANGED <<detector, app>>

\* calls of analyzeDifferences on every region list and response
NextAnalyze == InvokeAnalyze \/ InvokeNoApiKey \/ Generated \/ GenerateFailed
SpecAnalyze == Init /\ [][NextAnalyze]_vars

\* ---------------------------------------------------------------------- App

\* the file-selection overlay is gone and the toolbar can be reached: both
\* files are set
Shown == oldFile # None /\ newFile # None

\* a promise the run awaits has settled and its continuation has not run yet;
\* nothing else runs in between
Busy ==
    /\ run # None
    /\ \/ run.stage = "diff" /\ pc # "loading"
       \/ run.stage = "transcribe" /\ run.transcripts.status # "pending"
       \/ run.stage = "ai" /\ aiPc # "generating"

\* the effect that follows a change of currentPage, oldFile or newFile: with no
\* file it returns at once, otherwise one more renderPages call awaits its pages
renderPages(page, old, new) ==
    IF old = None /\ new = None THEN renders
    ELSE Append(renders, [page |-> page, oldFile |-> old, newFile |-> new])

\* handleFileSelect(file, isOld) up to its await
handleFileSelect ==
    /\ ~Busy
    /\ ~Shown /\ ~isProcessingFile
    /\ \E isOld \in BOOLEAN :
          \E file \in (IF isOld THEN OldFiles ELSE NewFiles) :
              selecting' = [file |-> file, isOld |-> isOld]
    /\ isProcessingFile' = TRUE
    /\ event' = "other"
    /\ UNCHANGED <<oldFile, newFile, currentPage, totalPages, oldPageImage, newPageImage,
                   diffMaskImage, analysis, renders, run, basis, detector, service>>

\* loadPdf resolves: the rest of handleFileSelect, and the effect it triggers
LoadPdfOk ==
    /\ ~Busy
    /\ selecting # None
    /\ Len(renders) < MaxRenders
    /\ LET pdfFile == [file |-> selecting.file, name |-> selecting.file.name,
                       numPages |-> loadPdf(selecting.file)]
           old == IF selecting.isOld THEN pdfFile ELSE oldFile
           new == IF selecting.isOld THEN newFile ELSE pdfFile
       IN  /\ oldFile' = old /\ newFile' = new
           /\ totalPages' = IntMax(totalPages, pdfFile.numPages)
           /\ renders' = renderPages(1, old, new)
    /\ currentPage' = 1
    /\ analysis' = [analysis EXCEPT !.results = NoResults]
    /\ basis' = NoResults
    /\ isProcessingFile' = FALSE
    /\ selecting' = None
    /\ event' = "other"
    /\ UNCHANGED <<oldPageImage, newPageImage, diffMaskImage, run, detector, service>>

\* loadPdf rejects: the alert, and the finally block
LoadPdfFail ==
    /\ ~Busy
    /\ selecting # None
    /\ isProcessingFile' = FALSE
    /\ selecting' = None
    /\ event' = "other"
    /\ UNCHANGED <<oldFile, newFile, currentPage, totalPages, oldPageImage, newPageImage,
                   diffMaskImage, analysis, renders, run, basis, detector, service>>

\* a page button: setCurrentPage and the effect it triggers
setCurrentPage(page) ==
    /\ ~Busy
    /\ Shown
    /\ Len(renders) < MaxRenders
    /\ currentPage' = page
    /\ renders' = renderPages(page, oldFile, newFile)
    /\ event' = "other"
    /\ UNCHANGED <<oldFile, newFile, isProcessingFile, selecting, totalPages, oldPageImage,
                   newPageImage, diffMaskImage, analysis, run, basis, detector, service>>

PreviousPage ==
    /\ currentPage # 1
    /\ setCurrentPage(IntMax(1, currentPage - 1))

NextPage ==
    /\ currentPage # totalPages
    /\ setCurrentPage(IntMin(totalPages, currentPage + 1))

\* what renderPages gets for one side: the page of the file, or null when
\* there is no file or the file has no such page
PageImage(file, page) ==
    IF file # None /\ page <= file.numPages THEN renderPageToImage(file.file, page)
    ELSE None

Remove(seq, i) == [j \in 1..(Len(seq) - 1) |-> IF j < i THEN seq[j] ELSE seq[j + 1]]

\* the pages of one renderPages call are ready: the rest of the call
Rendered ==
    /\ ~Busy
    /\ \E i \in 1..Len(renders) :
          /\ oldPageImage' = PageImage(renders[i].oldFile, renders[i].page)
          /\ newPageImage' = PageImage(renders[i].newFile, renders[i].page)
          /\ renders' = Remove(renders, i)
    /\ diffMaskImage' = None
    /\ event' = "renderPages"
    /\ UNCHANGED <<oldFile, newFile, isProcessingFile, selecting, currentPage, totalPages,
                   analysis, run, basis, detector, service>>

\* renderPageToImage rejects: the error is logged and that is all
RenderFailed ==
    /\ ~Busy
    /\ \E i \in 1..Len(renders) : renders' = Remove(renders, i)
    /\ event' = "other"
    /\ UNCHANGED <<oldFile, newFile, isProcessingFile, selecting, currentPage, totalPages,
                   oldPageImage, newPageImage, diffMaskImage, analysis, run, basis,
                   detector, service>>

\* the guards of runAnalysis with the test for a stored result left out
SkipsOnMissingImage == oldPageImage = None \/ newPageImage = None

\* the two guards of runAnalysis
Skips ==
    \/ oldPageImage = None \/ newPageImage = None
    \/ analysis.results[toString(currentPage)] # None

\* a click on Analyze, which the button takes unless it is disabled:
\* runAnalysis up to its first await
runAnalysis ==
    /\ ~Busy
    /\ Shown
    /\ ~(analysis.isLoading \/ oldPageImage = None \/ newPageImage = None)
    /\ event' = "runAnalysis"
    /\ IF Skips
       THEN UNCHANGED <<analysis, run, detector>>
       ELSE /\ analysis' = [analysis EXCEPT !.isLoading = TRUE, !.error = Null]
            /\ run' = [page |-> currentPage, old |-> oldPageImage, new |-> newPageImage,
                       stage |-> "diff", regions |-> <<>>, diffImageOld |-> None,
                       diffImageNew |-> None, maskImage |-> None,
                       transcripts |-> [status |-> "pending"]]
            /\ CallWith(<<oldPageImage, newPageImage>>, CellChangedThreshold, "rowMajor")
    /\ UNCHANGED <<oldFile, newFile, isProcessingFile, selecting, currentPage, totalPages,
                   oldPageImage, newPageImage, diffMaskImage, renders, basis, service>>

\* err.message: the event an image that fails to load rejects with has none
HasMessage(error) == error # "image load error"

\* the catch block of runAnalysis with the message left as it was
CatchKeepingError(error) ==
    /\ analysis' = [analysis EXCEPT !.isLoading = FALSE]
    /\ run' = None
    /\ event' = "catch"

\* the catch block of runAnalysis with the loading flag left as it was
CatchStillLoading(error) ==
    /\ analysis' = [analysis EXCEPT !.error = IF HasMessage(error) THEN error
                                              ELSE "Analysis failed"]
    /\ run' = None
    /\ event' = "catch"

\* the catch block of runAnalysis
Catch(error) ==
    /\ analysis' = [analysis EXCEPT !.isLoading = FALSE,
                                    !.error = IF HasMessage(error) THEN error
                                              ELSE "Analysis failed"]
    /\ run' = None
    /\ event' = "catch"

\* the promise of detectVisualDifferences is consumed: its frame is gone
ReleaseFrame ==
    /\ pc' = "idle"
    /\ imageOldStr' = None /\ imageNewStr' = None
    /\ cellThreshold' = CellChangedThreshold
    /\ order' = "rowMajor"
    /\ scanned' = <<>>
    /\ width' = 0 /\ height' = 0 /\ cols' = 0 /\ rows' = 0
    /\ grid' = <<>> /\ maskData' = CreateImageData(0, 0)
    /\ r' = 0 /\ c' = 0
    /\ regions' = <<>> /\ visited' = <<>> /\ regionCount' = 0 /\ queue' = <<>>
    /\ minR' = 0 /\ maxR' = 0 /\ minC' = 0 /\ maxC' = 0
    /\ pushed' = <<>>
    /\ labeledOldImage' = None /\ labeledNewImage' = None /\ maskImage' = None
    /\ outcome' = [status |-> "none"]
    /\ UNCHANGED earlier

\* the promise of analyzeDifferences is consumed
ReleaseService ==
    /\ aiPc' = "idle"
    /\ diffRegions' = <<>>
    /\ parsed' = None
    /\ analyzed' = [status |-> "none"]

\* detectVisualDifferences resolved: the mask is shown and the transcriptions
\* are requested
DiffResolved ==
    /\ run # None /\ run.stage = "diff" /\ pc = "done"
    /\ diffMaskImage' = outcome.maskImage
    /\ run' = [run EXCEPT !.stage = "transcribe", !.regions = outcome.regions,
                          !.diffImageOld = outcome.diffImageOld,
                          !.diffImageNew = outcome.diffImageNew,
                          !.maskImage = outcome.maskImage]
    /\ event' = "other"
    /\ UNCHANGED <<oldFile, newFile, isProcessingFile, selecting, currentPage, totalPages,
                   oldPageImage, newPageImage, analysis, renders, basis, service>>
    /\ ReleaseFrame

DiffRejected ==
    /\ run # None /\ run.stage = "diff" /\ pc = "failed"
    /\ Catch(outcome.error)
    /\ UNCHANGED <<oldFile, newFile, isProcessingFile, selecting, currentPage, totalPages,
                   oldPageImage, newPageImage, diffMaskImage, renders, basis, service>>
    /\ ReleaseFrame

\* Promise.all of the two transcriptions settles
Transcribing == run # None /\ run.stage = "transcribe" /\ run.transcripts.status = "pending"

TranscribeOk ==
    /\ Transcribing
    /\ run' = [run EXCEPT !.transcripts = [status |-> "resolved", old |-> Transcript(run.old),
                                           new |-> Transcript(run.new)]]
    /\ UNCHANGED <<oldFile, newFile, isProcessingFile, selecting, currentPage, totalPages,
                   oldPageImage, newPageImage, diffMaskImage, analysis, renders, event, basis,
                   detector, service>>

TranscribeFail ==
    /\ Transcribing
    /\ \E error \in {"No response from AI"} : run' = [run EXCEPT !.transcripts = Throw(error)]
    /\ UNCHANGED <<oldFile, newFile, isProcessingFile, selecting, currentPage, totalPages,
                   oldPageImage, newPageImage, diffMaskImage, analysis, renders, event, basis,
                   detector, service>>

Transcribed == run # None /\ run.stage = "transcribe" /\ run.transcripts.status = "resolved"

\* setAnalysis(prev => ...) storing a result under the page of the run
setResult(entry) ==
    /\ analysis' = [analysis EXCEPT !.isLoading = FALSE, !.results[toString(run.page)] = entry]
    /\ basis' = [basis EXCEPT ![toString(run.page)] = [old |-> run.old, new |-> run.new]]
    /\ run' = None
    /\ event' = "other"

\* no regions: the page is stored as unchanged
StoreNoRegions ==
    /\ Transcribed
    /\ Len(run.regions) = 0
    /\ setResult([summary |-> "No visual differences detected on this page.",
              changes |-> <<>>, pageNumber |-> run.page,
              oldPageMarkdown |-> run.transcripts.old,
              newPageMarkdown |-> run.transcripts.new])
    /\ UNCHANGED <<oldFile, newFile, isProcessingFile, selecting, currentPage, totalPages,
                   oldPageImage, newPageImage, diffMaskImage, renders, detector, service>>

\* regions: analyzeDifferences is called with them
StartAnalysis ==
    /\ Transcribed
    /\ Len(run.regions) # 0
    /\ analyzeDifferences(run.regions)
    /\ run' = [run EXCEPT !.stage = "ai"]
    /\ event' = "other"
    /\ UNCHANGED <<oldFile, newFile, isProcessingFile, selecting, currentPage, totalPages,
                   oldPageImage, newPageImage, diffMaskImage, analysis, renders, basis,
                   detector>>

TranscribeRejected ==
    /\ run # None /\ run.stage = "transcribe" /\ run.transcripts.status = "rejected"
    /\ Catch(run.transcripts.error)
    /\ UNCHANGED <<oldFile, newFile, isProcessingFile, selecting, currentPage, totalPages,
                   oldPageImage, newPageImage, diffMaskImage, renders, basis, detector, service>>

\* the answers of the AI to the request of a run
BriefResponses ==
    {[summary |-> "summary", oldPageMarkdown |-> "old tagged", newPageMarkdown |-> "new tagged"],
     Response(<<[id |-> "c1", description |-> "text", relatedDiffIds |-> <<"1">>],
                [id |-> "", description |-> "text", relatedDiffIds |-> <<"7">>]>>)}

GeneratedBrief ==
    /\ Respond(BriefResponses)
    /\ UNCHANGED <<detector, app>>

\* the request of a run fails
GenerateFailedBrief ==
    /\ Reject({"No response from AI"})
    /\ UNCHANGED <<detector, app>>

\* result.changes.map((c, i) => ({ ...c, id: c.id || `page-${currentPage}-change-${i}` }))
changesWithIds(changes, page) ==
    [i \in DOMAIN changes |->
        [changes[i] EXCEPT !.id = IF @ # "" THEN @
                                  ELSE "page-" \o toString(page) \o "-change-" \o toString(i - 1)]]

\* analyzeDifferences resolved: its changes are stored under the page of the run
StoreAnalysis ==
    /\ run # None /\ run.stage = "ai" /\ aiPc = "done"
    /\ "changes" \in DOMAIN analyzed.value
    /\ setResult([summary |-> analyzed.value.summary,
              changes |-> changesWithIds(analyzed.value.changes, run.page),
              pageNumber |-> run.page,
              oldPageMarkdown |-> analyzed.value.oldPageMarkdown,
              newPageMarkdown |-> analyzed.value.newPageMarkdown])
    /\ UNCHANGED <<oldFile, newFile, isProcessingFile, selecting, currentPage, totalPages,
                   oldPageImage, newPageImage, diffMaskImage, renders, detector>>
    /\ ReleaseService

\* analyzeDifferences resolved with no list of changes: result.changes.map throws
AnalysisMalformed ==
    /\ run # None /\ run.stage = "ai" /\ aiPc = "done"
    /\ "changes" \notin DOMAIN analyzed.value
    /\ Catch("Cannot read properties of undefined (reading 'map')")
    /\ UNCHANGED <<oldFile, newFile, isProcessingFile, selecting, currentPage, totalPages,
                   oldPageImage, newPageImage, diffMaskImage, renders, basis, detector>>
    /\ ReleaseService

AnalysisRejected ==
    /\ run # None /\ run.stage = "ai" /\ aiPc = "failed"
    /\ Catch(analyzed.error)
    /\ UNCHANGED <<oldFile, newFile, isProcessingFile, selecting, currentPage, totalPages,
                   oldPageImage, newPageImage, diffMaskImage, renders, basis, detector>>
    /\ ReleaseService

\* the steps of the visual diff on rendered pages, which always have pixels
PageSteps ==
    \/ LoadFail \/ ContextFail \/ LoadOk
    \/ ScanCell \/ ScanDone \/ ClusterCell \/ FloodStep \/ FloodDone
    \/ RenderOld \/ RenderNew \/ EncodeMask \/ Return

\* what the run in progress awaits and then does
RunSteps ==
    \/ PageSteps
    \/ DiffResolved \/ DiffRejected
    \/ TranscribeOk \/ TranscribeFail
    \/ StoreNoRegions \/ StartAnalysis \/ TranscribeRejected
    \/ GeneratedBrief \/ GenerateFailedBrief
    \/ StoreAnalysis \/ AnalysisMalformed \/ AnalysisRejected

\* the App: files are selected, pages are turned and rendered, Analyze is clicked
NextApp ==
    \/ handleFileSelect \/ LoadPdfOk \/ LoadPdfFail
    \/ PreviousPage \/ NextPage
    \/ Rendered \/ RenderFailed
    \/ runAnalysis
    \/ RunSteps
SpecApp == Init /\ [][NextApp]_vars

\* runs on the first page of every pair of files, where every call a run awaits
\* settles
NextAppLive ==
    \/ handleFileSelect \/ LoadPdfOk \/ LoadPdfFail
    \/ Rendered \/ RenderFailed
    \/ runAnalysis
    \/ RunSteps
SpecAppLive == Init /\ [][NextAppLive]_vars /\ WF_vars(RunSteps)

\* --------------------------------------------------------------- properties

Returned == pc = "done"

\* old and new have the same size and the same colour at every pixel
Identical(a, b) ==
    /\ a.width = b.width /\ a.height = b.height
    /\ \A y \in 0..(a.height - 1) : \A x \in 0..(a.width - 1) :
          PixelOf(a, x, y) = PixelOf(b, x, y)

\* C1 (identity): a call on two equally sized images with identical pixels
\* returns an empty regions list and a mask whose every pixel has alpha 0.
C1_Identity ==
    (Returned /\ Identical(imageOldStr, imageNewStr)) =>
        /\ outcome.status = "resolved"
        /\ outcome.regions = <<>>
        /\ \A p \in 0..(width * height - 1) : At(maskData, p)[4] = 0
        /\ \A p \in 0..(width * height - 1) : At(outcome.maskImage.data, p)[4] = 0

\* a call on an identical pair that is not blank has returned
C1_Witness ==
    /\ Returned
    /\ imageOldStr.stamps # <<>>
    /\ Identical(imageOldStr, imageNewStr)
    /\ maskData.pixels > 0

WellFormed(box) ==
    /\ FracLe(FracInt(0), box[1]) /\ FracLe(box[1], box[3]) /\ FracLe(box[3], FracInt(100))
    /\ FracLe(FracInt(0), box[2]) /\ FracLe(box[2], box[4]) /\ FracLe(box[4], FracInt(100))

\* C2 (box well-formedness): every region, while the list is built and when it
\* is returned, has 0 <= yMin <= yMax <= 100 and 0 <= xMin <= xMax <= 100, also
\* on pages whose width or height is not a multiple of the cell size.
C2_BoxWellFormed ==
    /\ \A k \in 1..Len(regions) : WellFormed(regions[k].boundingBox)
    /\ outcome.status = "resolved" =>
          \A k \in 1..Len(outcome.regions) : WellFormed(outcome.regions[k].boundingBox)

\* a returned region reaches into a last column and a last row that are both
\* narrower than a cell
C2_Witness ==
    /\ Returned
    /\ width % CELL_SIZE # 0 /\ height % CELL_SIZE # 0
    /\ \E k \in 1..Len(regions) :
          /\ regions[k].boundingBox[3] = FracInt(100)
          /\ regions[k].boundingBox[4] = FracInt(100)
          /\ regions[k].boundingBox[1] # FracInt(0)

SameImages ==
    /\ earlier.age \in {"next", "later"}
    /\ earlier.old = imageOldStr /\ earlier.new = imageNewStr

\* C3 as stated (monotonic suppression): of two calls on the same images the one
\* with the higher changed-pixel threshold never returns more regions.
C3_RegionCountMonotonic ==
    (Returned /\ SameImages) =>
        /\ earlier.threshold <= cellThreshold =>
              Len(outcome.regions) <= Len(earlier.result.regions)
        /\ cellThreshold <= earlier.threshold =>
              Len(earlier.result.regions) <= Len(outcome.regions)

Inside(a, b) ==
    /\ FracLe(b[1], a[1]) /\ FracLe(b[2], a[2])
    /\ FracLe(a[3], b[3]) /\ FracLe(a[4], b[4])

\* nothing is added going from the low threshold to the high one
Shrinks(gridHi, regionsHi, gridLo, regionsLo) ==
    /\ DOMAIN gridHi = DOMAIN gridLo
    /\ \A k \in DOMAIN gridHi : gridHi[k] = 1 => gridLo[k] = 1
    /\ \A i \in 1..Len(regionsHi) : \E j \in 1..Len(regionsLo) :
          Inside(regionsHi[i].boundingBox, regionsLo[j].boundingBox)

\* C3 as amended: of two calls on the same images the one with the higher
\* threshold marks no cell changed that the other leaves unchanged, and each of
\* its regions lies inside a region of the other; the number of regions can rise.
C3_CellsMonotonic ==
    (Returned /\ SameImages) =>
        /\ earlier.threshold <= cellThreshold =>
              Shrinks(grid, outcome.regions, earlier.grid, earlier.result.regions)
        /\ cellThreshold <= earlier.threshold =>
              Shrinks(earlier.grid, earlier.result.regions, grid, outcome.regions)

\* the threshold was raised, a cell dropped out and the regions became more
C3_Witness ==
    /\ Returned /\ SameImages
    /\ earlier.threshold < cellThreshold
    /\ \E k \in DOMAIN grid : grid[k] = 0 /\ earlier.grid[k] = 1
    /\ Len(outcome.regions) > Len(earlier.result.regions)

SizesDiffer ==
    /\ imageOldStr.ok /\ imageNewStr.ok
    /\ imageOldStr.width # imageNewStr.width \/ imageOldStr.height # imageNewStr.height

\* C4 (dimension mismatch): a call on images that differ in width or height
\* never resolves: it returns no regions, no annotated images and no mask.
C4_DimensionMismatchFails ==
    (pc # "idle" /\ SizesDiffer) => outcome.status # "resolved"

\* how often cell idx was put on the worklist
Pushes(idx) ==
    Cardinality({k \in 1..Len(pushed) : getIndex(pushed[k][2], pushed[k][3]) = idx})

Clustered == pc \in {"renderNew", "encode", "return", "done"}

\* C5 (clustering partitions the changed cells): no cell is ever taken into a
\* region twice or into two regions, no unchanged cell is ever taken, and once
\* clustering is over every changed cell has been taken into exactly one of the
\* regions 1..Len(regions), none of which is empty.
C5_Partition ==
    /\ \A idx \in DOMAIN grid : Pushes(idx) <= grid[idx]
    /\ \A k \in 1..Len(pushed) :
          /\ pushed[k][1] \in 1..regionCount
          /\ InGrid(pushed[k][2], pushed[k][3])
    /\ Clustered =>
          /\ \A idx \in DOMAIN grid : Pushes(idx) = grid[idx]
          /\ Len(regions) = regionCount
          /\ \A n \in 1..Len(regions) : \E k \in 1..Len(pushed) : pushed[k][1] = n

\* a returned call with two regions, one of several cells, and unchanged cells
C5_Witness ==
    /\ Returned
    /\ Len(regions) >= 2
    /\ Len(pushed) > Len(regions)
    /\ \E idx \in DOMAIN grid : grid[idx] = 0

ChangedCells == {idx \in DOMAIN grid : grid[idx] = 1}
RowOf(idx) == idx \div cols
ColOf(idx) == idx % cols

\* more than one cell apart: no edge or corner in common
Apart(a, b) == MathAbs(RowOf(a) - RowOf(b)) > 1 \/ MathAbs(ColOf(a) - ColOf(b)) > 1

\* the box of the single cell idx
CellBox(idx) ==
    << Frac(RowOf(idx) * 2000, height), Frac(ColOf(idx) * 2000, width),
       MathMin(FracInt(100), Frac((RowOf(idx) + 1) * 2000, height)),
       MathMin(FracInt(100), Frac((ColOf(idx) + 1) * 2000, width)) >>

\* C6 (separated changes): when exactly two cells are changed and they are more
\* than one cell apart, the call returns exactly two regions, "1" for the cell
\* the row-major scan meets first and "2" for the other.
C6_Separated ==
    (Returned /\ Cardinality(ChangedCells) = 2) =>
        LET a == CHOOSE x \in ChangedCells : \A y \in ChangedCells : x <= y
            b == CHOOSE x \in ChangedCells : \A y \in ChangedCells : y <= x
        IN  Apart(a, b) =>
              /\ Len(outcome.regions) = 2
              /\ outcome.regions[1] = [id |-> "1", boundingBox |-> CellBox(a)]
              /\ outcome.regions[2] = [id |-> "2", boundingBox |-> CellBox(b)]

\* two changed cells apart, the first met lying to the right of the second
C6_Witness ==
    /\ Returned
    /\ Cardinality(ChangedCells) = 2
    /\ \E a, b \in ChangedCells :
          /\ a < b /\ Apart(a, b) /\ ColOf(a) > ColOf(b)
          /\ outcome.regions[2].boundingBox = CellBox(b)

\* a 100x100 pair identical except for a solid block at (10,10)-(35,35) whose
\* colour is more than the pixel threshold away
BlockPair ==
    /\ imageOldStr.width = 100 /\ imageOldStr.height = 100
    /\ imageOldStr.stamps = <<>>
    /\ Len(imageNewStr.stamps) = 1
    /\ imageNewStr = [imageOldStr EXCEPT !.stamps = <<Rect(10, 10, 35, 35,
                                                           imageNewStr.stamps[1].colour)>>]
    /\ SumDiff(imageOldStr.bg, imageNewStr.stamps[1].colour) > 100

\* percentage f is within 20 of t
Within20(f, t) ==
    /\ FracLe(FracSub(f, FracInt(t)), FracInt(20))
    /\ FracLe(FracSub(FracInt(t), f), FracInt(20))

\* C7 (single contiguous change): for such a pair the call returns exactly one
\* region, each coordinate of whose box is within 20 of [10, 10, 35, 35].
C7_SingleBlock ==
    (Returned /\ BlockPair) =>
        /\ Len(outcome.regions) = 1
        /\ Within20(outcome.regions[1].boundingBox[1], 10)
        /\ Within20(outcome.regions[1].boundingBox[2], 10)
        /\ Within20(outcome.regions[1].boundingBox[3], 35)
        /\ Within20(outcome.regions[1].boundingBox[4], 35)

\* the call on the block pair has returned its region, found from four cells
C7_Witness ==
    /\ Returned /\ BlockPair
    /\ Len(outcome.regions) = 1
    /\ Cardinality(ChangedCells) = 4

\* C8 (determinism and statelessness): a call returns the same regions (ids,
\* boxes, order), the same mask and the same labelled images as an earlier call
\* on the same images, whatever calls were made before or in between.
C8_Deterministic ==
    (Returned /\ SameImages /\ earlier.threshold = cellThreshold) =>
        /\ outcome.regions = earlier.result.regions
        /\ outcome.maskImage = earlier.result.maskImage
        /\ outcome = earlier.result

\* the same images were compared before, other calls came in between, and the
\* result has two regions and opaque mask pixels
C8_Witness ==
    /\ Returned /\ SameImages /\ earlier.threshold = cellThreshold
    /\ earlier.age = "later"
    /\ Len(outcome.regions) = 2
    /\ \E p \in 0..(width * height - 1) :
          At(outcome.maskImage.data, p) = <<255, 0, 255, 255>>

DecimalStrings == <<"1", "2", "3", "4", "5", "6", "7", "8", "9", "10", "11", "12">>

\* the cells taken into region n, as grid indices
CellsOf(n) ==
    {getIndex(pushed[k][2], pushed[k][3]) : k \in {j \in 1..Len(pushed) : pushed[j][1] = n}}

MinOf(S) == CHOOSE m \in S : \A k \in S : m <= k

\* C10 (region ids): the k-th region of the list has the decimal string of k as
\* its id, so ids are distinct and gap-free, and the regions are listed in the
\* order in which the row-major scan first meets a cell of each: the first-met
\* cell of a region is its lowest cell in row-major order, and these cells rise
\* with the position in the list.
C10_RegionIds ==
    /\ \A k \in 1..Len(regions) : regions[k].id = DecimalStrings[k]
    /\ \A j, k \in 1..Len(regions) : j # k => regions[j].id # regions[k].id
    /\ \A j, k \in 1..Len(regions) : j < k => MinOf(CellsOf(j)) < MinOf(CellsOf(k))
    /\ \A k \in 1..Len(regions) :
          \E first \in 1..Len(pushed) :
              /\ pushed[first][1] = k
              /\ \A j \in 1..(first - 1) : pushed[j][1] < k
              /\ getIndex(pushed[first][2], pushed[first][3]) = MinOf(CellsOf(k))
    /\ Returned => outcome.regions = regions

\* ten regions were returned, the tenth with id "10"
C10_Witness ==
    /\ Returned
    /\ Len(outcome.regions) = 10
    /\ outcome.regions[10].id = "10"

\* both images decode and one of them has a zero width or height
ZeroSized ==
    /\ pc # "idle"
    /\ imageOldStr.ok /\ imageNewStr.ok
    /\ \/ imageOldStr.width = 0 \/ imageOldStr.height = 0
       \/ imageNewStr.width = 0 \/ imageNewStr.height = 0

\* C11 (invalid input): a call on an image whose width or height is zero fails
\* instead of returning a result.
C11_InvalidInputFails == ZeroSized => outcome.status # "resolved"

Outputs == {"regions", "diffImageOld", "diffImageNew", "maskImage"}

\* C12 (atomic result): a call that fails at any stage (image load, canvas
\* context, pixel read) is rejected and hands the caller none of the four
\* outputs; a call hands over outputs only when it has run to its end, and then
\* all four of them.
C12_AtomicResult ==
    /\ pc = "failed" => outcome.status = "rejected"
    /\ outcome.status # "resolved" => DOMAIN outcome \cap Outputs = {}
    /\ outcome.status = "resolved" =>
          /\ pc = "done"
          /\ Outputs \subseteq DOMAIN outcome
          /\ outcome.regions = regions
          /\ outcome.diffImageOld = LabeledImage("image/jpeg", imageOldStr, regions)
          /\ outcome.diffImageNew = LabeledImage("image/jpeg", imageNewStr, regions)
          /\ outcome.maskImage = EncodePng(maskData)

\* a call failed after its canvas was sized, and nothing was handed over
C12_Witness ==
    /\ pc = "failed"
    /\ width > 0
    /\ outcome.status = "rejected"

\* the canvas calls in drawn are those of the regions regs, region by region:
\* a box at the region's place and size in pixels, a label, the region's id
Shows(drawn, regs) ==
    /\ Len(drawn) = 3 * Len(regs)
    /\ \A k \in 1..Len(regs) :
          LET box == regs[k].boundingBox
              x == Frac(box[2].n * width, box[2].d * 100)
              y == Frac(box[1].n * height, box[1].d * 100)
          IN  /\ drawn[3 * k - 2].call = "strokeRect"
              /\ drawn[3 * k - 2].x = x /\ drawn[3 * k - 2].y = y
              /\ FracAdd(drawn[3 * k - 2].x, drawn[3 * k - 2].w)
                    = Frac(box[4].n * width, box[4].d * 100)
              /\ FracAdd(drawn[3 * k - 2].y, drawn[3 * k - 2].h)
                    = Frac(box[3].n * height, box[3].d * 100)
              /\ drawn[3 * k - 1].call = "fillRect"
              /\ drawn[3 * k - 1].x = x
              /\ drawn[3 * k].call = "fillText"
              /\ drawn[3 * k].text = regs[k].id

\* C13 (same boxes on both annotated images): what is drawn on the old image and
\* what is drawn on the new image are the boxes and ids of the same region list
\* in the same order, the list is still that list after each drawing, and the
\* regions returned are the ones drawn on both images.
C13_SameBoxes ==
    /\ pc \in {"renderNew", "encode", "return", "done"} =>
          Shows(labeledOldImage.drawn, regions)
    /\ pc \in {"encode", "return", "done"} =>
          /\ Shows(labeledNewImage.drawn, regions)
          /\ labeledNewImage.drawn = labeledOldImage.drawn
    /\ Returned =>
          /\ Shows(outcome.diffImageOld.drawn, outcome.regions)
          /\ Shows(outcome.diffImageNew.drawn, outcome.regions)
          /\ outcome.diffImageOld.drawn = outcome.diffImageNew.drawn

\* a call returned two regions drawn on two images that are not the same image
C13_Witness ==
    /\ Returned
    /\ Len(outcome.regions) = 2
    /\ outcome.diffImageOld.image # outcome.diffImageNew.image
    /\ Len(outcome.diffImageNew.drawn) = 6

\* the pixels of the cell numbered k
PixelsOf(k) == {i \div 4 : i \in CellIndices(k \div cols, k % cols)}

\* this call takes the cells in any order and the kept call, on the same images
\* with the same threshold, took them in row-major order
Reordered ==
    /\ order = "any"
    /\ pc \notin {"idle", "loading", "failed"}
    /\ earlier.age = "next"
    /\ earlier.order = "rowMajor"

Stage ==
    CASE pc = "loading" -> 0
      [] pc = "scan" -> 1
      [] pc \in {"cluster", "flood"} -> 2
      [] pc = "renderNew" -> 3
      [] pc = "encode" -> 4
      [] pc = "return" -> 5
      [] pc = "done" -> 6
      [] OTHER -> 0 - 1

\* the two images have the same positive width and the same positive height
Validated ==
    /\ imageOldStr.width = imageNewStr.width /\ imageOldStr.height = imageNewStr.height
    /\ imageOldStr.width > 0 /\ imageOldStr.height > 0

\* a step leaves the call in its stage, takes it to the next one, fails it, or
\* begins a new call after the end of one
StageStep ==
    \/ pc' = pc
    \/ pc \in {"idle", "done", "failed"} /\ pc' = "loading"
    \/ pc = "loading" /\ pc' = "failed"
    \/ pc = "flood" /\ pc' = "cluster"
    \/ pc = "cluster" /\ pc' = "flood"
    \/ Stage >= 0 /\ Stage < 6 /\ Stage' = Stage + 1

\* C15 (stage order): a call runs validate dimensions, Grid Differ, Region
\* Clusterer, Debug Renderer on the old image, Debug Renderer on the new image
\* and mask encode in this order, one after the other and none skipped: no call
\* is past the validation with images of different or empty sizes, and every
\* step stays in a stage or moves to the next.
C15_StageOrder == [](Stage >= 1 => Validated) /\ [][StageStep]_vars

\* the summed absolute R, G, B difference of two image pixels
RgbDistance(a, b) == MathAbs(a[1] - b[1]) + MathAbs(a[2] - b[2]) + MathAbs(a[3] - b[3])

\* the images have the same size and the same R, G, B at every pixel, and their
\* alpha differs somewhere
AlphaOnly ==
    /\ pc # "idle"
    /\ imageOldStr.ok /\ imageNewStr.ok
    /\ imageOldStr.width = imageNewStr.width /\ imageOldStr.height = imageNewStr.height
    /\ \A y \in 0..(imageOldStr.height - 1) : \A x \in 0..(imageOldStr.width - 1) :
          RgbDistance(PixelOf(imageOldStr, x, y), PixelOf(imageNewStr, x, y)) = 0
    /\ \E y \in 0..(imageOldStr.height - 1) : \E x \in 0..(imageOldStr.width - 1) :
          PixelOf(imageOldStr, x, y)[4] # PixelOf(imageNewStr, x, y)[4]

\* C16 (pixel test): a pixel that both images have counts as differing (is
\* opaque in the returned mask) exactly when the summed absolute R, G, B
\* difference of the two image pixels is more than 100, alpha playing no part:
\* two images that differ in alpha only give no regions and a mask with no
\* opaque pixel.
C16_PixelTest ==
    /\ Returned =>
          \A y \in 0..(IntMin(height, imageNewStr.height) - 1) :
             \A x \in 0..(IntMin(width, imageNewStr.width) - 1) :
                (At(outcome.maskImage.data, y * width + x)[4] # 0)
                   <=> (RgbDistance(PixelOf(imageOldStr, x, y),
                                    PixelOf(imageNewStr, x, y)) > 100)
    /\ (Returned /\ AlphaOnly) =>
          /\ outcome.regions = <<>>
          /\ \A p \in 0..(width * height - 1) : At(outcome.maskImage.data, p)[4] = 0

\* the cell scan has just ended, or the call has returned
ScanEnded == (pc = "cluster" /\ r = 0 /\ c = 0) \/ Returned

\* the number of differing pixels among those of rows 20*row .. 20*row + 19 and
\* columns 20*col .. 20*col + 19 that the page has
DifferingIn(row, col) ==
    Cardinality({xy \in (20 * col..(IntMin(20 * col + 20, width) - 1))
                          \X (20 * row..(IntMin(20 * row + 20, height) - 1)) :
                    SumDiff(data1((xy[2] * width + xy[1]) * 4),
                            data2((xy[2] * width + xy[1]) * 4)) > 100})

\* a cell of the last column or row where that one is narrower than 20 pixels
Partial(row, col) ==
    \/ col = cols - 1 /\ width % 20 # 0
    \/ row = rows - 1 /\ height % 20 # 0

C18_GridCoverage ==
    Stage >= 1 =>
        /\ (rows - 1) * 20 < height /\ height <= rows * 20
        /\ (cols - 1) * 20 < width /\ width <= cols * 20
        /\ DOMAIN grid = 0..(rows * cols - 1)
        /\ \A row \in 0..(rows - 1) : \A col \in 0..(cols - 1) :
              \A i \in CellIndices(row, col) :
                  /\ 0 <= i /\ i + 3 < width * height * 4
                  /\ i % 4 = 0
                  /\ ((i \div 4) \div width) \div 20 = row
                  /\ ((i \div 4) % width) \div 20 = col
        /\ UNION {CellIndices(k \div cols, k % cols) : k \in 0..(rows * cols - 1)}
              = {4 * p : p \in 0..(width * height - 1)}
        /\ \A k \in DOMAIN scanned : scanned[k] <= 1
        /\ Stage >= 2 => \A k \in DOMAIN scanned : scanned[k] = 1

\* the scan has ended on a page whose last column and last row are narrower
\* than a cell
C18_Witness ==
    /\ Stage >= 2
    /\ width % 20 # 0 /\ height % 20 # 0
    /\ cols > 1 /\ rows > 1
    /\ \A k \in DOMAIN scanned : scanned[k] = 1

\* the changed cells joined to a cell of S by a path of changed cells in which
\* consecutive cells share an edge or a corner
RECURSIVE Joined(_)
Joined(S) ==
    LET T == S \cup {k \in ChangedCells : \E j \in S : ~Apart(j, k)}
    IN  IF T = S THEN S ELSE Joined(T)

\* the number of the region that took cell idx
RegionOf(idx) == CHOOSE n \in 1..regionCount : idx \in CellsOf(n)

\* C19 (8-connectivity): when clustering is over, two changed cells are in the
\* same region exactly when a path of changed cells joins them in which
\* consecutive cells share an edge or a corner; two changed cells touching at a
\* corner only are in one region.
C19_EightConnectivity ==
    Clustered =>
        \A a \in ChangedCells : \A b \in ChangedCells :
            (RegionOf(a) = RegionOf(b)) <=> (b \in Joined({a}))

\* exactly two cells changed, they touch at a corner only, and the call returned
\* one region
C19_Witness ==
    /\ Returned
    /\ Len(outcome.regions) = 1
    /\ \E a \in ChangedCells : \E b \in ChangedCells :
          /\ ChangedCells = {a, b}
          /\ MathAbs(RowOf(a) - RowOf(b)) = 1
          /\ MathAbs(ColOf(a) - ColOf(b)) = 1

MaxOf(S) == CHOOSE m \in S : \A k \in S : k <= m

\* the percentage f is the number n / d
Is(f, n, d) == f.n * d = n * f.d

\* the percentage f is min(100, px * 100 / extent)
IsClamped(f, px, extent) ==
    IF px >= extent THEN Is(f, 100, 1) ELSE Is(f, px * 100, extent)

WorklistSound ==
    /\ Len(pushed) <= rows * cols
    /\ \A k \in 1..Len(pushed) :
          /\ 0 <= pushed[k][2] /\ pushed[k][2] < rows
          /\ 0 <= pushed[k][3] /\ pushed[k][3] < cols
          /\ grid[pushed[k][2] * cols + pushed[k][3]] = 1
          /\ visited[pushed[k][2] * cols + pushed[k][3]] = 1
          /\ \A j \in 1..Len(pushed) :
                (pushed[j][2] = pushed[k][2] /\ pushed[j][3] = pushed[k][3]) => j = k
    /\ \A k \in 1..Len(queue) :
          /\ \E j \in 1..Len(pushed) : <<pushed[j][2], pushed[j][3]>> = queue[k]
          /\ \A j \in 1..Len(queue) : queue[j] = queue[k] => j = k
    /\ \A idx \in DOMAIN visited :
          visited[idx] = 1 <=>
             \E k \in 1..Len(pushed) : pushed[k][2] * cols + pushed[k][3] = idx
    /\ Clustered =>
          \A idx \in DOMAIN grid :
             grid[idx] = 1 =>
                /\ visited[idx] = 1
                /\ \E k \in 1..Len(pushed) : pushed[k][2] * cols + pushed[k][3] = idx

\* C21 (flood fill terminates and visits each cell once): no cell is put on the
\* worklist twice, only changed cells of the grid are put on it and each is
\* marked visited, when clustering is over every changed cell has been on it;
\* every flood fill that has begun drains its worklist, and every clustering
\* scan that has begun comes to its end.
C21_FloodFill ==
    /\ []WorklistSound
    /\ (pc = "flood") ~> (pc = "cluster")
    /\ (pc = "cluster") ~> Clustered

\* clustering is over after a flood fill that took all six cells of a page
C21_Witness ==
    /\ Clustered
    /\ \E n \in 1..regionCount : Cardinality(CellsOf(n)) = 6
    /\ queue = <<>>

\* the 8-connected components of the changed cells
Components == {Joined({a}) : a \in ChangedCells}

\* the boxes a and b have a point in common
Overlap(a, b) ==
    /\ FracLe(a[1], b[3]) /\ FracLe(b[1], a[3])
    /\ FracLe(a[2], b[4]) /\ FracLe(b[2], a[4])

\* C22 (one region per component, no later merging): the call returns as many
\* regions as the changed cells have 8-connected components, one for each, also
\* when the boxes of two components overlap or touch.
C22_OneRegionPerComponent ==
    Returned =>
        /\ Len(outcome.regions) = Cardinality(Components)
        /\ \A n \in 1..Len(outcome.regions) : CellsOf(n) \in Components
        /\ \A m, n \in 1..Len(outcome.regions) : m # n => CellsOf(m) # CellsOf(n)

\* a U-shaped component and a single cell inside it were returned as two regions
\* whose boxes overlap
C22_Witness ==
    /\ Returned
    /\ Len(outcome.regions) = 2
    /\ Cardinality(CellsOf(1)) = 9
    /\ Cardinality(CellsOf(2)) = 1
    /\ Overlap(outcome.regions[1].boundingBox, outcome.regions[2].boundingBox)

\* C30 (regions are ordered top to bottom): in the list of regions yMin never
\* decreases with the position, while the list is built and when it is
\* returned, and the cell at which the scan met a region lies in the topmost row
\* of the region's cells.
C30_TopToBottom ==
    /\ \A i, j \in 1..Len(regions) :
          i < j => FracLe(regions[i].boundingBox[1], regions[j].boundingBox[1])
    /\ \A n \in 1..Len(regions) :
          RowOf(MinOf(CellsOf(n))) = MinOf({RowOf(x) : x \in CellsOf(n)})
    /\ Returned =>
          \A i, j \in 1..Len(outcome.regions) :
             i < j => FracLe(outcome.regions[i].boundingBox[1],
                             outcome.regions[j].boundingBox[1])

\* two regions were returned, the second lower on the page and further left
\* than the first
C30_Witness ==
    /\ Returned
    /\ Len(outcome.regions) = 2
    /\ outcome.regions[1].boundingBox[1] # outcome.regions[2].boundingBox[1]
    /\ ~FracLe(outcome.regions[1].boundingBox[2], outcome.regions[2].boundingBox[2])

\* ------------------------------------------------------------ C23, C24

Analyzed == aiPc = "done" /\ "changes" \in DOMAIN parsed

\* the positions of relatedDiffIds that name a region of the call
Matching(ids) ==
    {k \in 1..Len(ids) : \E i \in 1..Len(diffRegions) : diffRegions[i].id = ids[k]}

\* the box of the region an id names
BoxOf(rid) ==
    (CHOOSE region \in {diffRegions[i] : i \in 1..Len(diffRegions)} :
        region.id = rid).boundingBox

\* boxes lists the boxes of the matching ids, in the order of the ids
ListsInOrder(boxes, ids) ==
    /\ Len(boxes) = Cardinality(Matching(ids))
    /\ \A k \in Matching(ids) :
          boxes[Cardinality({j \in Matching(ids) : j <= k})] = BoxOf(ids[k])

C24_NoDuplicateBoxes ==
    Analyzed =>
        \A i \in DOMAIN analyzed.value.changes :
            LET out == analyzed.value.changes[i]
            IN  "boundingBoxes" \in DOMAIN out =>
                    \A j, k \in 1..Len(out.boundingBoxes) :
                        j # k => out.boundingBoxes[j] # out.boundingBoxes[k]

\* ------------------------------------------------------------ C25 .. C29

\* the step is a click on Analyze that calls runAnalysis
Clicked == event # "runAnalysis" /\ event' = "runAnalysis"

HasResult(page) == analysis.results[toString(page)] # None

Caught == event # "catch" /\ event' = "catch"

\* the error the awaited call of the run was rejected with, or that the
\* run threw itself
Failure ==
    CASE run.stage = "diff" -> outcome.error
      [] run.stage = "transcribe" -> run.transcripts.error
      [] run.stage = "ai" /\ aiPc = "failed" -> analyzed.error
      [] OTHER -> "Cannot read properties of undefined (reading 'map')"

\* C26: when the visual diff, a transcription or the AI analysis fails during
\* runAnalysis, isLoading becomes false, error becomes the message of the
\* failure (or "Analysis failed" when it has none) and analysis.results is left
\* as it was; the next run clears error before it starts.
C26_FailureOfARun ==
    [][/\ Caught
            => /\ analysis'.isLoading = FALSE
               /\ analysis'.error = (IF Failure = "image load error" THEN "Analysis failed"
                                     ELSE Failure)
               /\ analysis'.results = analysis.results
       /\ (Clicked /\ run' # None) => analysis'.error = Null]_vars

\* a run failed on an empty answer of the AI, after the result of another page
\* was stored
C26_Witness ==
    /\ event = "catch"
    /\ analysis.error = "No response from AI"
    /\ ~analysis.isLoading
    /\ run = None
    /\ \E k \in PageKeys : analysis.results[k] # None

\* C27: every runAnalysis call that sets isLoading sets it back to false, on
\* each of its exits, provided every call it awaits settles; and isLoading is
\* never true with no run in flight.
C27_LoadingClears ==
    /\ [](run = None => ~analysis.isLoading)
    /\ analysis.isLoading ~> ~analysis.isLoading

\* a run that set isLoading awaits the AI analysis
C27_Witness ==
    /\ run # None
    /\ run.stage = "ai" /\ aiPc = "generating"
    /\ analysis.isLoading

\* C28: an entry stored in analysis.results under page p was computed from the
\* images rendered for page p of the current files.
C28_ResultsOfTheirPage ==
    \A p \in 1..LastPage :
        HasResult(p) =>
            basis[toString(p)] = [old |-> PageImage(oldFile, p), new |-> PageImage(newFile, p)]

\* C29: when a renderPages call ends, the images it sets are the renderings of
\* currentPage for the current files: a render started for an earlier page or
\* file never overwrites the images of a later one, so once all renders have
\* ended the images displayed are those of the current page.
C29_ImagesOfCurrentPage ==
    [][event' = "renderPages"
            => /\ oldPageImage' = PageImage(oldFile', currentPage')
               /\ newPageImage' = PageImage(newFile', currentPage')]_vars

====
